---- MODULE Spec2Model ----
(***************************************************************************)
(* Shamir secret sharing (crate secretsharing_shamir, src/src/lib.rs).     *)
(*                                                                         *)
(* The session SS {prime, polynomial}, its constructor SS::new with the    *)
(* coefficient draws of gen_polynomial, gen_shares / eval_px_at_xi, and    *)
(* the static reconstruct_secret with its helpers gcd and inv_modp.        *)
(*                                                                         *)
(* Big integers are scaled down: two tiers of BitSize are kept, standing   *)
(* for widths of 2 and 3 bits with the primes 3 and 5 (the code treats     *)
(* every tier alike, only the width differs).  BigUint is unbounded and    *)
(* unsigned: a subtraction below zero, a division by zero and an unwrap()  *)
(* of an Err abort the call, which the model records as the outcome kind   *)
(* "Panic".                                                                *)
(***************************************************************************)
EXTENDS Integers, Sequences, FiniteSets, TLC

VARIABLES
    pc,          \* position of the calling program
    prime_size,  \* argument of SS::new / gen_polynomial while it runs
    threshold,   \* argument of SS::new
    secret,      \* argument of SS::new
    result,      \* what SS::new returned: "none", "Ok", "ThresholdTooSmall"
    prime,       \* SS.prime (0: no instance)
    polynomial,  \* SS.polynomial
    points,      \* argument of the last gen_shares
    shares,      \* Vec<Share> returned by the last gen_shares
    rprime,      \* argument prime of reconstruct_secret
    rshares,     \* argument shares of reconstruct_secret
    rres,        \* outcome of reconstruct_secret
    ip,          \* argument prime of inv_modp
    ia,          \* argument a of inv_modp
    ires         \* outcome of inv_modp

vars == <<pc, prime_size, threshold, secret, result, prime, polynomial,
          points, shares, rprime, rshares, rres, ip, ia, ires>>

sessionVars == <<prime_size, threshold, secret, result, prime, polynomial>>

recVars == <<rprime, rshares, rres>>

invVars == <<ip, ia, ires>>

----------------------------------------------------------------------------
(* Bounds of the model *)

MaxThreshold == 3

MaxSecret == 3

MaxPoint == 3

MaxPoints == 2

MaxMod == 5

MaxX == 3

MaxY == 2

MaxRecShares == 2

MaxInvMod == 12

MaxInvA == 14

MaxDegree == 2

MaxPolyLen == 4

----------------------------------------------------------------------------
(* Outcomes of a call *)

Ok(v) == [kind |-> "Ok", val |-> v, err |-> ""]

Err(e) == [kind |-> "Err", val |-> 0, err |-> e]

Panic(why) == [kind |-> "Panic", val |-> 0, err |-> why]

NoCall == [kind |-> "none", val |-> 0, err |-> ""]

Share(x, y) == [X |-> x, Y |-> y]

SeqsUpTo(S, n) == UNION {[1..k -> S] : k \in 0..n}

----------------------------------------------------------------------------
(* BitSize *)

BitSize == {"Bit256", "Bit512"}

Bits(b) == CASE b = "Bit256" -> 2 [] b = "Bit512" -> 3

fixed_prime(b) == CASE b = "Bit256" -> 3 [] b = "Bit512" -> 5

\* Generator::safe_prime(bits): a prime of that width (of the scaled primes)
new_prime(b) == {q \in {3, 5} : 2^(Bits(b) - 1) <= q /\ q < 2^Bits(b)}

n_bit_random_mut(b) == 0..0

\* rng.gen_biguint(bits): any value below 2^bits
n_bit_random(b) == 0..(2^Bits(b) - 1)

----------------------------------------------------------------------------
(* SS::new and gen_polynomial *)

ThresholdTooSmall_mut(t) == t < 1

ThresholdTooSmall(t) == t <= 1

constant_term_mut(s, p) == s

\* secret % prime in SS::new, reduced once more in gen_polynomial
constant_term(s, p) == (s % p) % p

Coeff(r, p) == r % p

is_zero_mut(c) == FALSE

is_zero(c) == c = 0

SS_new(b, use_fixed_prime, t, s) ==
    /\ pc = "start"
    /\ threshold' = t
    /\ secret' = s
    /\ IF ThresholdTooSmall(t)
       THEN /\ result' = "ThresholdTooSmall"
            /\ pc' = "failed"
            /\ UNCHANGED <<prime_size, prime, polynomial>>
       ELSE /\ \E prim \in (IF use_fixed_prime THEN {fixed_prime(b)} ELSE new_prime(b)) :
                  /\ prime' = prim
                  /\ polynomial' = <<constant_term(s, prim)>>
            /\ prime_size' = b
            /\ pc' = IF 0 < (t - 1) - 1 THEN "mid" ELSE "lead"
            /\ UNCHANGED result
    /\ UNCHANGED <<points, shares, recVars, invVars>>

New == \E b \in BitSize, f \in BOOLEAN, t \in 0..MaxThreshold, s \in 0..MaxSecret : SS_new(b, f, t, s)

\* one iteration of `for _ in 0..(degree - 1)`, degree = threshold - 1
DrawCoeff ==
    /\ pc = "mid"
    /\ \E r \in n_bit_random(prime_size) :
          polynomial' = Append(polynomial, Coeff(r, prime))
    /\ pc' = IF Len(polynomial') - 1 < (threshold - 1) - 1 THEN "mid" ELSE "lead"
    /\ UNCHANGED <<prime_size, threshold, secret, result, prime>>
    /\ UNCHANGED <<points, shares, recVars, invVars>>

\* one iteration of the rejection loop; a zero draw leaves the state as it is
DrawLeading ==
    /\ pc = "lead"
    /\ \E r \in n_bit_random(prime_size) :
          LET leading_coeff == Coeff(r, prime) IN
          IF ~is_zero(leading_coeff)
          THEN /\ polynomial' = Append(polynomial, leading_coeff)
               /\ result' = "Ok"
               /\ prime_size' = "none"
               /\ pc' = "ready"
          ELSE UNCHANGED <<polynomial, result, prime_size, pc>>
    /\ UNCHANGED <<threshold, secret, prime>>
    /\ UNCHANGED <<points, shares, recVars, invVars>>

\* the polynomials SS::new can return for prime p, threshold t and secret s
NewPolys(p, t, s) ==
    LET draws == {Coeff(r, p) : r \in 0..(p - 1)}
        leads == {c \in draws : ~is_zero(c)}
    IN {<<constant_term(s, p)>> \o mid \o <<l>> : mid \in [1..(t - 2) -> draws], l \in leads}

\* gen_polynomial as a public method of a session that exists: what
\* self.polynomial can be when the call returns. It pushes onto the vector the
\* session already holds. degree >= 1 here: with degree = 0 the u8 expression
\* degree - 1 is below zero.
gen_polynomial(poly, p, s, degree, b) ==
    LET draws == {Coeff(r, p) : r \in n_bit_random(b)}
        leads == {c \in draws : ~is_zero(c)}
    IN {poly \o <<s % p>> \o mid \o <<l>> : mid \in [1..(degree - 1) -> draws], l \in leads}

GenPolynomial ==
    /\ pc = "ready"
    /\ \E s \in 0..MaxSecret, degree \in 1..MaxDegree, b \in BitSize :
          /\ Len(polynomial) + degree + 1 <= MaxPolyLen
          /\ polynomial' \in gen_polynomial(polynomial, prime, s, degree, b)
    /\ UNCHANGED <<pc, prime_size, threshold, secret, result, prime>>
    /\ UNCHANGED <<points, shares, recVars, invVars>>

\* get_prime: the caller keeps the reference it returns
GetPrime ==
    /\ pc \in {"ready", "shared"}
    /\ rprime' = prime
    /\ UNCHANGED <<pc, sessionVars, points, shares, rshares, rres, invVars>>

----------------------------------------------------------------------------
(* gen_shares and eval_px_at_xi *)

next_x_pow_mut(x_pow, x, p) == x_pow % p

next_x_pow(x_pow, x, p) == (x_pow * x) % p

RECURSIVE eval_loop(_, _, _, _, _, _)
eval_loop(poly, p, x, i, y, x_pow) ==
    IF i > Len(poly) THEN y
    ELSE LET tmp == (x_pow * poly[i]) % p
         IN eval_loop(poly, p, x, i + 1, (y + tmp) % p, next_x_pow(x_pow, x, p))

eval_px_at_xi(poly, p, x) == eval_loop(poly, p, x, 2, poly[1], x)

gen_shares(poly, p, pts) == [i \in 1..Len(pts) |-> Share(pts[i], eval_px_at_xi(poly, p, pts[i]))]

GenShares(pts) ==
    /\ pc = "ready"
    /\ points' = pts
    /\ shares' = gen_shares(polynomial, prime, pts)
    /\ pc' = "shared"
    /\ UNCHANGED <<sessionVars, recVars, invVars>>

GenSharesAny == \E pts \in SeqsUpTo(0..MaxPoint, MaxPoints) : GenShares(pts)

----------------------------------------------------------------------------
(* gcd, inv_modp and reconstruct_secret *)

RECURSIVE gcd_loop(_, _)
gcd_loop(a, b) == IF b = 0 THEN a ELSE gcd_loop(b, a % b)

gcd(x, y) == IF x = 0 \/ y = 0 THEN Err("ZeroInputGCD") ELSE Ok(gcd_loop(x, y))

\* extended Euclid: <<g, u, v>> with a*u + b*v = g
RECURSIVE egcd(_, _)
egcd(a, b) ==
    IF b = 0 THEN <<a, 1, 0>>
    ELSE LET r == egcd(b, a % b) IN <<r[1], r[3], r[2] - (a \div b) * r[3]>>

\* BigUint::modinv: Some(inverse) or None; the modulus is not 0 here
modinv(a, m) ==
    IF m = 1 THEN Ok(0)
    ELSE LET r == egcd(a % m, m)
         IN IF r[1] = 1 THEN Ok(((r[2] % m) + m) % m) ELSE Err("None")

inv_modp(p, a) ==
    IF p = 0 THEN Panic("DivideByZero")
    ELSE LET aa == (p + a) % p
             g == gcd(aa, p)
         IN IF g.kind = "Err" THEN Panic("unwrap:" \o g.err)
            ELSE IF g.val # 1 THEN Err("NotCoprimes")
            ELSE LET inv == modinv(aa, p)
                 IN IF inv.kind = "Ok" THEN Ok(inv.val) ELSE Err("NotCoprimes")

term_num_mut(p, xj) == xj % p

\* (0 - xj) mod p
term_num(p, xj) == (p - xj) % p

term_den(p, xi, xj) == (xi + ((p - xj) % p)) % p

accumulate_mut(p, res, yi, li0) == res + ((yi * li0) % p)

accumulate(p, res, yi, li0) == (res + ((yi * li0) % p)) % p

\* the loop over j for one i: Ok with val = <<num, den>>, or the panic that ends it
RECURSIVE lagrange_loop(_, _, _, _, _, _)
lagrange_loop(p, sh, i, j, num, den) ==
    IF j > Len(sh) THEN Ok(<<num, den>>)
    ELSE IF i = j THEN lagrange_loop(p, sh, i, j + 1, num, den)
    ELSE IF sh[j].X > p THEN Panic("SubtractWithOverflow")
    ELSE IF p = 0 THEN Panic("DivideByZero")
    ELSE lagrange_loop(p, sh, i, j + 1,
                       (num * term_num(p, sh[j].X)) % p,
                       (den * term_den(p, sh[i].X, sh[j].X)) % p)

RECURSIVE reconstruct_loop(_, _, _, _)
reconstruct_loop(p, sh, i, res) ==
    IF i > Len(sh) THEN Ok(res)
    ELSE LET l == lagrange_loop(p, sh, i, 1, 1, 1)
         IN IF l.kind = "Panic" THEN l
            ELSE LET den_inv == inv_modp(p, l.val[2])
                 IN IF den_inv.kind = "Panic" THEN den_inv
                    ELSE IF den_inv.kind = "Err" THEN Panic("unwrap:" \o den_inv.err)
                    ELSE LET li0 == (l.val[1] * den_inv.val) % p
                         IN reconstruct_loop(p, sh, i + 1, accumulate(p, res, sh[i].Y, li0))

reconstruct_secret(p, sh) == reconstruct_loop(p, sh, 1, 0)

----------------------------------------------------------------------------
(* The calling programs *)

RECURSIVE Ascending(_)
Ascending(S) ==
    IF S = {} THEN <<>>
    ELSE LET m == CHOOSE x \in S : \A y \in S : x <= y
         IN <<m>> \o Ascending(S \ {m})

\* points as the tests and the example give them: pairwise distinct, in [1, p)
GenSharesDistinct == \E P \in SUBSET (1..(prime - 1)) : GenShares(Ascending(P))

\* the caller's choice of shares: any of them, each once, in any order
Selections(n) == {sel \in SeqsUpTo(1..n, n) : \A i, j \in 1..Len(sel) : i # j => sel[i] # sel[j]}

\* get_prime, then reconstruct_secret on the chosen shares
Reconstruct ==
    /\ pc = "shared"
    /\ \E sel \in Selections(Len(shares)) :
          LET chosen == [i \in 1..Len(sel) |-> shares[sel[i]]] IN
          /\ rprime' = prime
          /\ rshares' = chosen
          /\ rres' = reconstruct_secret(prime, chosen)
    /\ pc' = "reconstructed"
    /\ UNCHANGED <<sessionVars, points, shares, invVars>>

\* reconstruct_secret as a static call on any modulus and any shares
ReconstructCall ==
    /\ pc = "rec_call"
    /\ rres' = reconstruct_secret(rprime, rshares)
    /\ pc' = "rec_done"
    /\ UNCHANGED <<sessionVars, points, shares, rprime, rshares, invVars>>

\* inv_modp as the unit tests call it
InvModpCall ==
    /\ pc = "inv_call"
    /\ ires' = inv_modp(ip, ia)
    /\ pc' = "inv_done"
    /\ UNCHANGED <<sessionVars, points, shares, recVars, ip, ia>>

----------------------------------------------------------------------------
NoSession ==
    /\ prime_size = "none"
    /\ threshold = 0
    /\ secret = 0
    /\ result = "none"
    /\ prime = 0
    /\ polynomial = <<>>
    /\ points = <<>>
    /\ shares = <<>>

Init ==
    /\ pc = "start"
    /\ NoSession
    /\ rprime = 0
    /\ rshares = <<>>
    /\ rres = NoCall
    /\ ip = 0
    /\ ia = 0
    /\ ires = NoCall

Next == New \/ DrawCoeff \/ DrawLeading \/ GenSharesAny

Spec == Init /\ [][Next]_vars

\* construction, shares at distinct nonzero points, reconstruction
NextRT == New \/ DrawCoeff \/ DrawLeading \/ GenSharesDistinct \/ Reconstruct

SpecRT == Init /\ [][NextRT]_vars

\* SS::new alone, as a running call: the loops of gen_polynomial go on, and the
\* random source returns a value that is not 0 mod p at some draw. A rejected
\* draw leaves every variable as it is, so weak fairness of DrawLeading says
\* that an accepted draw comes.
NextNew == New \/ DrawCoeff \/ DrawLeading

SpecNew == Init /\ [][NextNew]_vars /\ WF_vars(DrawCoeff) /\ WF_vars(DrawLeading)

\* every public operation on a session SS::new returned
NextSession ==
    New \/ DrawCoeff \/ DrawLeading \/ GetPrime \/ GenPolynomial \/ GenSharesAny \/ Reconstruct

SpecSession == Init /\ [][NextSession]_vars

\* reconstruct_secret on inputs drawn from bounded sets
InitRec ==
    /\ pc = "rec_call"
    /\ NoSession
    /\ rprime \in 0..MaxMod
    /\ rshares \in SeqsUpTo({Share(x, y) : x \in 0..MaxX, y \in 0..MaxY}, MaxRecShares)
    /\ rres = NoCall
    /\ ip = 0
    /\ ia = 0
    /\ ires = NoCall

NextRec == ReconstructCall

SpecRec == InitRec /\ [][NextRec]_vars

\* inv_modp on inputs drawn from bounded sets
InitInv ==
    /\ pc = "inv_call"
    /\ NoSession
    /\ rprime = 0
    /\ rshares = <<>>
    /\ rres = NoCall
    /\ ip \in 0..MaxInvMod
    /\ ia \in 0..MaxInvA
    /\ ires = NoCall

NextInv == InvModpCall

SpecInv == InitInv /\ [][NextInv]_vars

----------------------------------------------------------------------------
(* Reference notions the properties are stated with *)

IsPrime(n) == n >= 2 /\ \A d \in 2..(n - 1) : n % d # 0

RECURSIVE Pow(_, _)
Pow(x, n) == IF n = 0 THEN 1 ELSE x * Pow(x, n - 1)

\* sum over k of a_k * x^k, in plain integers
RECURSIVE PolySum(_, _, _)
PolySum(poly, x, k) == IF k > Len(poly) THEN 0 ELSE poly[k] * Pow(x, k - 1) + PolySum(poly, x, k + 1)

RECURSIVE RefGcd(_, _)
RefGcd(a, b) == IF b = 0 THEN a ELSE RefGcd(b, a % b)

DistinctX(sh) == \A i, j \in 1..Len(sh) : i # j => sh[i].X # sh[j].X

\* sh was taken from the shares gen_shares returned for pairwise-distinct points of [1, p)
ProducedAtDistinctPoints(sh) ==
    /\ result = "Ok"
    /\ \A i \in 1..Len(points) : 1 <= points[i] /\ points[i] < prime
    /\ \A i, j \in 1..Len(points) : i # j => points[i] # points[j]
    /\ \A i \in 1..Len(sh) : \E j \in 1..Len(shares) : sh[i] = shares[j]
    /\ DistinctX(sh)

Recovered == rres.kind = "Ok" /\ rres.val = secret % prime

----------------------------------------------------------------------------
(* Properties *)

\* C1: round trip. Every selection of at least `threshold` of the shares that
\* gen_shares produced at pairwise-distinct points of [1, p) reconstructs to
\* secret mod p, whichever shares are chosen and in whichever order.
C1_RoundTrip ==
    (pc = "reconstructed" /\ ProducedAtDistinctPoints(rshares) /\ Len(rshares) >= threshold)
        => Recovered

C1_Witness ==
    /\ pc = "reconstructed"
    /\ threshold = 3
    /\ Len(shares) = 4
    /\ Len(rshares) = 3
    /\ rshares[1] = shares[4]
    /\ Recovered

\* C2: SS::new answers ThresholdTooSmall for every threshold <= 1, with no prime
\* chosen and no polynomial built, and never for a threshold >= 2, where what it
\* returns is Ok.
C2_ThresholdCheck ==
    pc # "start" =>
        IF threshold <= 1
        THEN result = "ThresholdTooSmall" /\ pc = "failed" /\ prime = 0 /\ polynomial = <<>>
        ELSE /\ result \in {"none", "Ok"}
             /\ pc # "failed"
             /\ (result = "none") = (pc \in {"mid", "lead"})

C2_Witness == pc = "failed" /\ threshold = 1 /\ secret = MaxSecret /\ result = "ThresholdTooSmall"

\* C3: the polynomial of a session SS::new returned has exactly `threshold`
\* coefficients, all in [0, p), the first is secret mod p and the last is not 0.
C3_PolynomialShape ==
    result = "Ok" =>
        /\ Len(polynomial) = threshold
        /\ \A i \in 1..Len(polynomial) : 0 <= polynomial[i] /\ polynomial[i] < prime
        /\ polynomial[1] = secret % prime
        /\ polynomial[threshold] # 0

C3_Witness ==
    /\ result = "Ok"
    /\ threshold = 2
    /\ secret >= prime
    /\ Len(polynomial) = 2
    /\ polynomial[2] # 0

\* C4: gen_shares returns one share per point, in input order, with X the point
\* and Y the value of the session polynomial at the point, mod p; no point is
\* rejected (x = 0, repeated points and the empty list included).
C4_SharesArePolynomialValues ==
    pc = "shared" =>
        /\ Len(shares) = Len(points)
        /\ \A i \in 1..Len(points) :
              /\ shares[i].X = points[i]
              /\ shares[i].Y = PolySum(polynomial, points[i], 1) % prime

C4_Witness ==
    /\ pc = "shared"
    /\ threshold = 3
    /\ polynomial[2] # 0
    /\ Len(points) = 2
    /\ points[1] = 0
    /\ points[2] = 0
    /\ Len(shares) = 2

\* C5: given two shares with the same x-coordinate, reconstruct_secret ends
\* with the error NotCoprimes as an error result.
C5_DuplicateXIsNotCoprimes ==
    (pc = "rec_done" /\ IsPrime(rprime) /\ ~DistinctX(rshares)
        /\ \A i \in 1..Len(rshares) : rshares[i].X < rprime)
        => (rres.kind = "Err" /\ rres.err = "NotCoprimes")

\* C6: shares at fewer than `threshold` distinct nonzero points are consistent
\* with every secret of [0, p): for each one SS::new can build a polynomial
\* that yields exactly these shares.
C6_FewerSharesRevealNothing ==
    (pc = "shared" /\ ProducedAtDistinctPoints(shares) /\ Len(shares) < threshold)
        => \A s \in 0..(prime - 1) :
              \E poly \in NewPolys(prime, threshold, s) : gen_shares(poly, prime, points) = shares

\* C7: no public operation aborts: reconstruct_secret returns a value or an
\* explicit error, whatever the shares and the modulus (stated here for the
\* moduli p >= 2, which leaves a zero modulus aside).
C7_NoPanic == (pc = "rec_done" /\ rprime >= 2) => rres.kind \in {"Ok", "Err"}

C9_AnyModulusCompletes ==
    (pc = "rec_done" /\ rprime >= 2 /\ Len(rshares) >= 1 /\ DistinctX(rshares)
        /\ \A i \in 1..Len(rshares) : rshares[i].X < rprime)
        => (rres.kind = "Ok" /\ 0 <= rres.val /\ rres.val < rprime)

\* C9 amended: the same for every prime modulus p.
C9_PrimeModulusCompletes ==
    (pc = "rec_done" /\ IsPrime(rprime) /\ DistinctX(rshares)
        /\ \A i \in 1..Len(rshares) : rshares[i].X < rprime)
        => (rres.kind = "Ok" /\ 0 <= rres.val /\ rres.val < rprime)

C9_Witness ==
    /\ pc = "rec_done"
    /\ IsPrime(rprime)
    /\ Len(rshares) = 1
    /\ rshares[1].X < rprime
    /\ rshares[1].Y >= rprime
    /\ rres.kind = "Ok"
    /\ rres.val < rprime

\* C10: for p >= 2, inv_modp(p, a) is Ok(inv) with 0 <= inv < p and
\* a * inv = 1 mod p when gcd(a mod p, p) = 1, and Err(NotCoprimes) otherwise,
\* a = 0 mod p included.
C10_InvModpMatchesReference ==
    (pc = "inv_done" /\ ip >= 2) =>
        IF RefGcd(ia % ip, ip) = 1
        THEN ires.kind = "Ok" /\ 0 <= ires.val /\ ires.val < ip /\ (ia * ires.val) % ip = 1
        ELSE ires.kind = "Err" /\ ires.err = "NotCoprimes"

\* C11: the state of a session is fixed at construction. Once SS::new has
\* returned Ok, no step of a public operation (gen_shares, get_prime,
\* gen_polynomial, reconstruct_secret) changes the prime or the polynomial.
C11_SessionFixed == [][result = "Ok" => (prime' = prime /\ polynomial' = polynomial)]_vars

\* C12: every share gen_shares returns is a pair of field elements:
\* 0 <= X < p and 0 <= Y < p, whatever the points.
C12_SharesAreFieldElements ==
    pc = "shared" =>
        \A i \in 1..Len(shares) :
            /\ 0 <= shares[i].X /\ shares[i].X < prime
            /\ 0 <= shares[i].Y /\ shares[i].Y < prime

\* C13: SS::new with threshold >= 2 completes with a session. Once the
\* threshold check has passed and gen_polynomial is drawing, the call reaches
\* its return of Ok, provided the random source returns a value that is not
\* 0 mod p at some draw; there is no failure outcome on the way.
C13_NewCompletes ==
    (threshold >= 2 /\ pc \in {"mid", "lead"}) ~> (pc = "ready" /\ result = "Ok")

C13_Witness ==
    /\ pc = "ready"
    /\ result = "Ok"
    /\ threshold = 3
    /\ Len(polynomial) = 3
    /\ polynomial[2] = 0

\* C14: with exactly threshold - 1 of the shares gen_shares produced at
\* pairwise-distinct points of [1, p), reconstruct_secret completes and the
\* value it returns is different from secret mod p, in every case.
C14_OneShortOfThresholdNeverRecovers ==
    (pc = "reconstructed" /\ ProducedAtDistinctPoints(rshares)
        /\ Len(rshares) = threshold - 1)
        => (rres.kind = "Ok" /\ rres.val # secret % prime)

C14_Witness ==
    /\ pc = "reconstructed"
    /\ ProducedAtDistinctPoints(rshares)
    /\ threshold = 2
    /\ prime = 5
    /\ Len(shares) = 4
    /\ Len(rshares) = 1
    /\ rshares[1] = shares[3]
    /\ rres.kind = "Ok"
    /\ rres.val # secret % prime

====
